---- MODULE Spec2Model ----
(***************************************************************************)
(* Khetsudhar: the useCachedQuery hook (hooks/useCachedQuery).             *)
(*                                                                         *)
(* One mounted hook instance over a shared AsyncStorage.  Every call of    *)
(* loadData is an "attempt": an async function that suspends at            *)
(* `await fetcher()`, at `await AsyncStorage.setItem(...)` and at          *)
(* `await AsyncStorage.getItem(...)`.  The code between two suspension     *)
(* points runs to completion on the single JS thread, and React applies    *)
(* the state setters of one such segment as one batch, so every segment    *)
(* is one action.  A storage call takes effect at the step that resumes    *)
(* its caller.                                                             *)
(***************************************************************************)
EXTENDS Integers, Sequences, FiniteSets, TLC

\* Bound: the number of loadData calls made during one run.
MaxAttempts == 2

\* Bound: the number of AsyncStorage calls that reject during one run.
MaxStoreFaults == 1

\* Bound: the number of renders that pass a new producer function.
MaxRenders == 1

\* The keys one call site passes as the language changes (login.tsx:740).
Keys == {"dashboard_tip_of_day_en", "dashboard_tip_of_day_hi"}

\* The key of the first render.
FirstKey == "dashboard_tip_of_day_en"

----------------------------------------------------------------------------
\* JavaScript values the producers of this repository resolve to.

\* fetchProfileAndScore resolves null without a session; useState(null).
JsNull == [t |-> "null"]

\* fetchTipOfTheDay resolves a string.
JsString(s) == [t |-> "string", s |-> s]

\* fetchUserProgress resolves an object; user_coins stands for its fields.
JsObject(c) == [t |-> "object", user_coins |-> c]

\* What a producer call may resolve to.
ProducerResults == {JsNull, JsString("Tip"), JsObject(1)}

\* The values of user_coins the model can parse back.
CoinRange == 0 .. 9

\* JSON.parse throws a SyntaxError on a text that is not JSON.
SyntaxError == [t |-> "SyntaxError"]

\* AsyncStorage.getItem resolves null when the key has no entry.
NoEntry == <<"<absent>">>

\* A JSON text is the sequence of its tokens; the empty sequence is the
\* empty string.
JSONStringify(v) ==
    CASE v.t = "null"   -> <<"null">>
      [] v.t = "string" -> <<"\"", v.s, "\"">>
      [] v.t = "object" -> <<"{", "\"", "user_coins", "\"", ":",
                             ToString(v.user_coins), "}">>

JSONParse(s) ==
    IF s = <<"null">> THEN JsNull
    ELSE IF Len(s) = 3 /\ s[1] = "\"" /\ s[3] = "\"" THEN JsString(s[2])
    ELSE IF /\ Len(s) = 7
            /\ <<s[1], s[2], s[3], s[4], s[5], s[7]>>
                 = <<"{", "\"", "user_coins", "\"", ":", "}">>
            /\ \E c \in CoinRange : ToString(c) = s[6]
         THEN JsObject(CHOOSE c \in CoinRange : ToString(c) = s[6])
    ELSE SyntaxError

\* `if (cached)`: null and the empty string are falsy.
Truthy(cached) == cached # NoEntry /\ cached # <<>>

\* What a previous run of the app has left under a key, when it left
\* something: an older result, different from all that this run fetches.
PriorResult == JsObject(0)

PriorTexts == {JSONStringify(PriorResult)}

\* The values data can hold and the texts the store can hold.
Values == ProducerResults \cup {PriorResult}

StoredTexts == {JSONStringify(v) : v \in Values}

----------------------------------------------------------------------------
VARIABLES
    key,            \* the key prop of the current render
    mounted,        \* the consumer has not been torn down
    effectPending,  \* the effect of the last render has not run yet
    data,           \* useState: data
    loading,        \* useState: loading
    isOffline,      \* useState: isOffline
    refreshing,     \* useState: refreshing
    store,          \* AsyncStorage: key -> JSON text or NoEntry
    attempts,       \* the loadData calls made so far, in call order
    lastDone,       \* the attempt that returned last (0: none has)
    storeFaults,    \* the AsyncStorage calls that have rejected so far
    fetcher,        \* the identity of the fetcher prop of the current render
    boundFetcher    \* the fetcher the current loadData closure calls

vars == <<key, mounted, effectPending, data, loading, isOffline, refreshing,
          store, attempts, lastDone, storeFaults, fetcher, boundFetcher>>

\* What a render passes and what useCallback has captured of it.
closure == <<fetcher, boundFetcher>>

hookState == <<data, loading, isOffline, refreshing>>

InFlight == {i \in DOMAIN attempts : attempts[i].pc # "done"}

----------------------------------------------------------------------------
\* The rest of the app: the lesson tables and the two functions that read
\* them, the start-up screen and the layout's auth guard, the lesson screen.

VARIABLES
    lessonsTable,   \* table `lessons`: lesson id -> sequence
    userLessons,    \* table `user_lessons`: the lesson ids of the user's rows
    lessonsResult,  \* fetchLessonsAndProgress: lesson id -> status
    nextLesson,     \* fetchUserProgress: next_lesson (a lesson id)
    auth,           \* supabase.auth: a session exists
    onboarding,     \* AsyncStorage: user_language and user_crop are stored
    layout,         \* AppLayout: session, isLoading
    guardPending,   \* AppLayout: the routing effect has to run
    index,          \* Index: position in checkFlow, session, isFirstLaunch,
                    \* loading
    route,          \* expo-router: segments[0] of the screen shown
    detail          \* LessonDetailScreen: isCompleting, isCompleted, and the
                    \* position in handleMarkComplete

lessonVars == <<lessonsTable, userLessons, lessonsResult, nextLesson>>

routingVars == <<auth, onboarding, layout, guardPending, index, route>>

appVars == <<lessonVars, routingVars, detail>>

\* A function that has not been called has no result.
NotFetched == [fetched |-> FALSE]

\* The lesson tables before anything is read from them.
LessonsAtRest ==
    /\ lessonsTable = <<>>
    /\ userLessons = {}
    /\ lessonsResult = NotFetched
    /\ nextLesson = NotFetched

\* AppLayout and Index at their first render.
LayoutAtRest ==
    /\ layout = [session |-> FALSE, isLoading |-> TRUE]
    /\ guardPending = TRUE
    /\ index = [pc |-> "unmounted", session |-> FALSE,
                isFirstLaunch |-> "null", loading |-> TRUE, failed |-> FALSE]
    /\ route = "index"

\* The same, logged out and with no onboarding entry stored.
RoutingAtRest ==
    /\ auth = FALSE
    /\ onboarding = [user_language |-> FALSE, user_crop |-> FALSE]
    /\ LayoutAtRest

\* LessonDetailScreen at its first render.
DetailAtRest ==
    detail = [lesson |-> 1, pc |-> "idle", isCompleting |-> FALSE,
              isCompleted |-> FALSE, outcome |-> "none", success |-> FALSE,
              inserts |-> 0, presses |-> 0]

\* The first render: useState initial values, the effect not yet run.
\* The rest of the app is not followed.
Init ==
    /\ LessonsAtRest /\ RoutingAtRest /\ DetailAtRest
    /\ key = FirstKey
    /\ mounted = TRUE
    /\ effectPending = TRUE
    /\ data = JsNull
    /\ loading = TRUE
    /\ isOffline = FALSE
    /\ refreshing = FALSE
    /\ store \in [Keys -> PriorTexts \cup {NoEntry}]
    /\ attempts = <<>>
    /\ lastDone = 0
    /\ storeFaults = 0
    /\ fetcher = 0
    /\ boundFetcher = 0

----------------------------------------------------------------------------
\* loadData(isRefresh) up to `await fetcher()`.

NewAttempt(isRefresh) ==
    [isRefresh |-> isRefresh,
     key       |-> key,
     pc        |-> "fetching",
     producer  |-> "pending",
     result    |-> JsNull,
     path      |-> "none",
     promise   |-> "pending",
     fetcher   |-> boundFetcher,
     reads     |-> 0,
     writes    |-> 0]

\* A loadData that shows the full-screen loading state for a refresh too.
SetInFlightFlagBoth(isRefresh) ==
    /\ refreshing' = (isRefresh \/ refreshing)
    /\ loading' = TRUE

\* if (isRefresh) setRefreshing(true); else setLoading(true);
SetInFlightFlag(isRefresh) ==
    IF isRefresh
    THEN refreshing' = TRUE /\ UNCHANGED loading
    ELSE loading' = TRUE /\ UNCHANGED refreshing

StartAttempt(isRefresh) ==
    /\ Len(attempts) < MaxAttempts
    /\ SetInFlightFlag(isRefresh)
    /\ attempts' = Append(attempts, NewAttempt(isRefresh))
    /\ UNCHANGED <<data, isOffline, store, lastDone, storeFaults>>

\* useEffect(() => { loadData(); }, [loadData])
RunEffect ==
    /\ mounted
    /\ effectPending
    /\ effectPending' = FALSE
    /\ StartAttempt(FALSE)
    /\ UNCHANGED <<key, mounted>>
    /\ UNCHANGED <<closure, appVars>>

\* refresh: () => loadData(true)
Refresh ==
    /\ mounted
    /\ ~effectPending
    /\ StartAttempt(TRUE)
    /\ UNCHANGED <<key, mounted, effectPending>>
    /\ UNCHANGED <<closure, appVars>>

\* A render with another key: useCallback makes a new loadData and the
\* effect is scheduled again; the useState cells are kept.
ChangeKey(k) ==
    /\ mounted
    /\ ~effectPending
    /\ k # key
    /\ Len(attempts) < MaxAttempts
    /\ key' = k
    /\ effectPending' = TRUE
    /\ boundFetcher' = fetcher
    /\ UNCHANGED <<mounted, hookState, store, attempts, lastDone, storeFaults,
                   fetcher>>
    /\ UNCHANGED appVars

\* A hook whose effect depends on the producer function too
\* (useCallback(..., [key, fetcher])): the new render runs the effect.
RerenderRunsEffect ==
    /\ mounted
    /\ ~effectPending
    /\ fetcher < MaxRenders
    /\ Len(attempts) < MaxAttempts
    /\ fetcher' = fetcher + 1
    /\ boundFetcher' = fetcher + 1
    /\ effectPending' = TRUE
    /\ UNCHANGED <<key, mounted, hookState, store, attempts, lastDone,
                   storeFaults>>
    /\ UNCHANGED appVars

\* A render with the same key and a new producer function (an inline arrow
\* function is a new one at every render): useCallback(..., [key]) returns
\* the loadData it has, so the effect, whose dependency is loadData, does
\* not run again.
Rerender ==
    /\ mounted
    /\ ~effectPending
    /\ fetcher < MaxRenders
    /\ fetcher' = fetcher + 1
    /\ UNCHANGED <<key, mounted, effectPending, hookState, store, attempts,
                   lastDone, storeFaults, boundFetcher>>
    /\ UNCHANGED appVars

\* The consumer is torn down; attempts in flight keep running.
Unmount ==
    /\ mounted
    /\ mounted' = FALSE
    /\ UNCHANGED <<key, effectPending, hookState, store, attempts, lastDone,
                   storeFaults>>
    /\ UNCHANGED <<closure, appVars>>

----------------------------------------------------------------------------
\* The producer settles.

\* `await fetcher()` resolves: JSON.stringify(result), setItem is issued.
ProducerResolve(i, v) ==
    /\ i \in DOMAIN attempts
    /\ attempts[i].pc = "fetching"
    /\ attempts' = [attempts EXCEPT ![i].pc = "writing",
                                    ![i].producer = "resolved",
                                    ![i].result = v,
                                    ![i].writes = @ + 1]
    /\ UNCHANGED <<key, mounted, effectPending, hookState, store, lastDone,
                   storeFaults>>
    /\ UNCHANGED <<closure, appVars>>

\* A loadData without the catch block: try { ... } finally { ... }.
ProducerRejectPropagates(i) ==
    /\ i \in DOMAIN attempts
    /\ attempts[i].pc = "fetching"
    /\ attempts' = [attempts EXCEPT ![i].pc = "done",
                                    ![i].producer = "rejected",
                                    ![i].promise = "rejected"]
    /\ lastDone' = i
    /\ IF mounted THEN loading' = FALSE /\ refreshing' = FALSE
                  ELSE UNCHANGED <<loading, refreshing>>
    /\ UNCHANGED <<key, mounted, effectPending, data, isOffline, store,
                   storeFaults>>
    /\ UNCHANGED <<closure, appVars>>

\* A watchdog that gives the producer up: the flags go down at once and the
\* catch block issues getItem.
ProducerRejectClearsFlags(i) ==
    /\ i \in DOMAIN attempts
    /\ attempts[i].pc = "fetching"
    /\ attempts' = [attempts EXCEPT ![i].pc = "reading",
                                    ![i].producer = "rejected",
                                    ![i].reads = @ + 1]
    /\ IF mounted THEN loading' = FALSE /\ refreshing' = FALSE
                  ELSE UNCHANGED <<loading, refreshing>>
    /\ UNCHANGED <<key, mounted, effectPending, data, isOffline, store,
                   lastDone, storeFaults>>
    /\ UNCHANGED <<closure, appVars>>

\* A catch block that evicts the entry (removeItem) before it reads it.
ProducerRejectClearsEntry(i) ==
    /\ i \in DOMAIN attempts
    /\ attempts[i].pc = "fetching"
    /\ attempts' = [attempts EXCEPT ![i].pc = "reading",
                                    ![i].producer = "rejected",
                                    ![i].reads = @ + 1]
    /\ store' = [store EXCEPT ![attempts[i].key] = NoEntry]
    /\ UNCHANGED <<key, mounted, effectPending, hookState, lastDone,
                   storeFaults>>
    /\ UNCHANGED <<closure, appVars>>

\* `await fetcher()` rejects: the catch block issues getItem.
ProducerReject(i) ==
    /\ i \in DOMAIN attempts
    /\ attempts[i].pc = "fetching"
    /\ attempts' = [attempts EXCEPT ![i].pc = "reading",
                                    ![i].producer = "rejected",
                                    ![i].reads = @ + 1]
    /\ UNCHANGED <<key, mounted, effectPending, hookState, store, lastDone,
                   storeFaults>>
    /\ UNCHANGED <<closure, appVars>>

----------------------------------------------------------------------------
\* The ends of an attempt.  A state setter of an unmounted component does
\* nothing.

\* A finally block that forgets setRefreshing(false).
FinallyKeepsRefreshing ==
    /\ loading' = FALSE
    /\ UNCHANGED refreshing

\* finally { setLoading(false); setRefreshing(false); }
Finally ==
    /\ loading' = FALSE
    /\ refreshing' = FALSE

Return(i, path, promise) ==
    /\ attempts' = [attempts EXCEPT ![i].pc = "done",
                                    ![i].path = path,
                                    ![i].promise = promise]
    /\ lastDone' = i

\* A success path that forgets setIsOffline(false).
OnSuccessKeepsOffline(result) ==
    /\ data' = result
    /\ UNCHANGED isOffline

\* setData(result); setIsOffline(false);
OnSuccess(result) ==
    /\ data' = result
    /\ isOffline' = FALSE

\* A success path that forgets the setItem call.
PersistNothing(i) ==
    UNCHANGED store

\* A cache that is written once: setItem only when the key has no entry.
PersistIfAbsent(i) ==
    store' = IF store[attempts[i].key] = NoEntry
             THEN [store EXCEPT ![attempts[i].key] =
                                    JSONStringify(attempts[i].result)]
             ELSE store

\* A setItem that serializes the data of the render (the closure's stale
\* `data`) where it should serialize the fetched result.
PersistStaleData(i) ==
    store' = [store EXCEPT ![attempts[i].key] = JSONStringify(data)]

\* A setItem that names the key of the latest render, not the key the
\* loadData call was created with.
PersistCurrentKey(i) ==
    store' = [store EXCEPT ![key] = JSONStringify(attempts[i].result)]

\* AsyncStorage.setItem(key, JSON.stringify(result)) with the key and the
\* result of attempt i.
Persist(i) ==
    store' = [store EXCEPT ![attempts[i].key] =
                               JSONStringify(attempts[i].result)]

\* A loadData that drops the result of every attempt but the one called
\* last (request fencing: the last call wins).
WriteCompleteFenced(i) ==
    /\ i \in DOMAIN attempts
    /\ attempts[i].pc = "writing"
    /\ Persist(i)
    /\ IF mounted
       THEN /\ IF i = Len(attempts) THEN OnSuccess(attempts[i].result)
                                    ELSE UNCHANGED <<data, isOffline>>
            /\ Finally
       ELSE UNCHANGED hookState
    /\ Return(i, "success", "fulfilled")
    /\ UNCHANGED <<key, mounted, effectPending, storeFaults>>
    /\ UNCHANGED <<closure, appVars>>

\* A loadData that drops the result of an attempt made for a key that is
\* no longer the instance's key.
WriteCompleteCurrentKeyOnly(i) ==
    /\ i \in DOMAIN attempts
    /\ attempts[i].pc = "writing"
    /\ Persist(i)
    /\ IF mounted
       THEN /\ IF attempts[i].key = key THEN OnSuccess(attempts[i].result)
                                        ELSE UNCHANGED <<data, isOffline>>
            /\ Finally
       ELSE UNCHANGED hookState
    /\ Return(i, "success", "fulfilled")
    /\ UNCHANGED <<key, mounted, effectPending, storeFaults>>
    /\ UNCHANGED <<closure, appVars>>

\* State setters that still take effect after the unmount.
WriteCompleteAfterTeardown(i) ==
    /\ i \in DOMAIN attempts
    /\ attempts[i].pc = "writing"
    /\ Persist(i)
    /\ OnSuccess(attempts[i].result)
    /\ Finally
    /\ Return(i, "success", "fulfilled")
    /\ UNCHANGED <<key, mounted, effectPending, storeFaults>>
    /\ UNCHANGED <<closure, appVars>>

\* `await AsyncStorage.setItem(key, JSON.stringify(result))` resolves.
WriteComplete(i) ==
    /\ i \in DOMAIN attempts
    /\ attempts[i].pc = "writing"
    /\ Persist(i)
    /\ IF mounted
       THEN OnSuccess(attempts[i].result) /\ Finally
       ELSE UNCHANGED hookState
    /\ Return(i, "success", "fulfilled")
    /\ UNCHANGED <<key, mounted, effectPending, storeFaults>>
    /\ UNCHANGED <<closure, appVars>>

\* A cache hit that forgets setIsOffline(true).
OnCacheHitKeepsOnline(cached) ==
    /\ data' = JSONParse(cached)
    /\ UNCHANGED isOffline

\* setData(JSON.parse(cached)); setIsOffline(true);
OnCacheHit(cached) ==
    /\ data' = JSONParse(cached)
    /\ isOffline' = TRUE

\* A cache miss that calls setData(null).
OnCacheMissClearsData ==
    /\ data' = JsNull
    /\ isOffline' = TRUE

\* else { ... setIsOffline(true); }
OnCacheMiss ==
    /\ UNCHANGED data
    /\ isOffline' = TRUE

\* `await AsyncStorage.getItem(key)` resolves.
ReadComplete(i) ==
    /\ i \in DOMAIN attempts
    /\ attempts[i].pc = "reading"
    /\ LET cached == store[attempts[i].key] IN
         IF Truthy(cached) /\ JSONParse(cached) = SyntaxError
         THEN \* JSON.parse throws inside the catch block
              /\ IF mounted THEN Finally /\ UNCHANGED <<data, isOffline>>
                            ELSE UNCHANGED hookState
              /\ Return(i, "threw", "rejected")
         ELSE /\ IF mounted
                 THEN /\ IF Truthy(cached) THEN OnCacheHit(cached)
                                           ELSE OnCacheMiss
                      /\ Finally
                 ELSE UNCHANGED hookState
              /\ Return(i, IF Truthy(cached) THEN "hit" ELSE "miss",
                        "fulfilled")
    /\ UNCHANGED <<key, mounted, effectPending, store, storeFaults>>
    /\ UNCHANGED <<closure, appVars>>

----------------------------------------------------------------------------
\* Storage faults.

\* setItem rejects (quota exceeded): control passes to the catch block.
WriteReject(i) ==
    /\ i \in DOMAIN attempts
    /\ attempts[i].pc = "writing"
    /\ storeFaults < MaxStoreFaults
    /\ storeFaults' = storeFaults + 1
    /\ attempts' = [attempts EXCEPT ![i].pc = "reading",
                                    ![i].reads = @ + 1]
    /\ UNCHANGED <<key, mounted, effectPending, hookState, store, lastDone>>
    /\ UNCHANGED <<closure, appVars>>

\* getItem rejects inside the catch block: only the finally block runs and
\* the promise of loadData rejects.
ReadReject(i) ==
    /\ i \in DOMAIN attempts
    /\ attempts[i].pc = "reading"
    /\ storeFaults < MaxStoreFaults
    /\ storeFaults' = storeFaults + 1
    /\ IF mounted THEN Finally /\ UNCHANGED <<data, isOffline>>
                  ELSE UNCHANGED hookState
    /\ Return(i, "threw", "rejected")
    /\ UNCHANGED <<key, mounted, effectPending, store>>
    /\ UNCHANGED <<closure, appVars>>

----------------------------------------------------------------------------
Next ==
    \/ RunEffect
    \/ Refresh
    \/ \E k \in Keys : ChangeKey(k)
    \/ Unmount
    \/ \E i \in 1 .. MaxAttempts, v \in ProducerResults : ProducerResolve(i, v)
    \/ \E i \in 1 .. MaxAttempts : ProducerReject(i)
    \/ \E i \in 1 .. MaxAttempts : WriteComplete(i)
    \/ \E i \in 1 .. MaxAttempts : ReadComplete(i)

\* The store is reliable.
Spec == Init /\ [][Next]_vars

NextFault ==
    \/ Next
    \/ \E i \in 1 .. MaxAttempts : WriteReject(i)
    \/ \E i \in 1 .. MaxAttempts : ReadReject(i)

\* Storage calls may reject.
SpecFault == Init /\ [][NextFault]_vars

NextRender ==
    \/ Next
    \/ Rerender

\* The store is reliable and renders may pass new producer functions.
SpecRender == Init /\ [][NextRender]_vars

----------------------------------------------------------------------------
\* Vocabulary of the properties.

\* Attempt i returns in this step.
Returns(i) ==
    /\ i \in DOMAIN attempts
    /\ attempts[i].pc # "done"
    /\ attempts'[i].pc = "done"

\* The attempt that returned last, when there is one.
Last == attempts[lastDone]

\* C1: when an automatic load whose producer resolved returns through the
\* success path and leaves no attempt in flight, data is the producer's
\* value, loading, refreshing and isOffline are false, and the store entry
\* of the attempt's key is the JSON text of that value, whatever it held.
C1_ActivationSuccess ==
    [][\A i \in DOMAIN attempts :
         ( /\ mounted
           /\ ~attempts[i].isRefresh
           /\ attempts[i].producer = "resolved"
           /\ Returns(i)
           /\ attempts'[i].path = "success"
           /\ InFlight' = {} )
         => /\ data' = attempts[i].result
            /\ ~loading' /\ ~refreshing' /\ ~isOffline'
            /\ store'[attempts[i].key] = JSONStringify(attempts[i].result)]_vars

\* An automatic load has fetched the object, nothing is in flight, and the
\* entry a previous run left under the key has been overwritten.
C1_Witness ==
    /\ mounted
    /\ InFlight = {}
    /\ lastDone = 1
    /\ ~attempts[1].isRefresh
    /\ attempts[1].path = "success"
    /\ attempts[1].result = JsObject(1)
    /\ data = JsObject(1)
    /\ store[attempts[1].key] # JSONStringify(PriorResult)
    /\ store[attempts[1].key] = <<"{", "\"", "user_coins", "\"", ":", "1", "}">>

\* C2: when an automatic load whose producer rejected returns after reading
\* a stored text V under its key, data is JSON.parse(V), isOffline is true
\* and loading is false.
C2_ActivationFallsBackToCache ==
    [][\A i \in DOMAIN attempts :
         ( /\ mounted
           /\ ~attempts[i].isRefresh
           /\ attempts[i].producer = "rejected"
           /\ store[attempts[i].key] # NoEntry
           /\ Returns(i)
           /\ attempts'[i].promise = "fulfilled" )
         => /\ data' = JSONParse(store[attempts[i].key])
            /\ JSONStringify(data') = store[attempts[i].key]
            /\ isOffline'
            /\ ~loading']_vars

\* The first automatic load failed and serves the entry of the previous run.
C2_Witness ==
    /\ mounted
    /\ lastDone = 1
    /\ ~attempts[1].isRefresh
    /\ attempts[1].producer = "rejected"
    /\ attempts[1].path = "hit"
    /\ data = PriorResult
    /\ isOffline
    /\ ~loading

\* C3: when an attempt whose producer rejected returns after finding no
\* entry under its key, data is what it was and isOffline is true; data is
\* therefore empty when this is the first attempt to return after the mount.
C3_FailureWithoutCache ==
    [][\A i \in DOMAIN attempts :
         ( /\ mounted
           /\ attempts[i].producer = "rejected"
           /\ store[attempts[i].key] = NoEntry
           /\ Returns(i)
           /\ attempts'[i].promise = "fulfilled" )
         => /\ data' = data
            /\ isOffline'
            /\ (lastDone = 0 => data' = JsNull)]_vars

\* The first automatic load failed with no entry: nothing to show, offline.
C3_Witness ==
    /\ mounted
    /\ lastDone = 1
    /\ Len(attempts) = 1
    /\ attempts[1].producer = "rejected"
    /\ attempts[1].path = "miss"
    /\ store[attempts[1].key] = NoEntry
    /\ data = JsNull
    /\ isOffline

\* C4: a mounted instance never has loading and refreshing true together.
C4_AtMostOneInFlightFlag ==
    mounted => ~(loading /\ refreshing)

\* C5: when an automatic load and a refresh on the same key have both
\* succeeded with different values and nothing is in flight, data is the
\* result of the one that returned last, whichever was called last, and
\* loading, refreshing and isOffline are false.
C5_LastResolvedWins ==
    \A a, r \in DOMAIN attempts :
        ( /\ mounted
          /\ InFlight = {}
          /\ ~attempts[a].isRefresh
          /\ attempts[r].isRefresh
          /\ attempts[a].key = attempts[r].key
          /\ attempts[a].path = "success"
          /\ attempts[r].path = "success"
          /\ attempts[a].result # attempts[r].result
          /\ lastDone \in {a, r} )
        => /\ data = Last.result
           /\ ~loading /\ ~refreshing /\ ~isOffline

\* The refresh was called after the automatic load and returned before it
\* (so the two were in flight together): data is the automatic load's result.
C5_Witness ==
    /\ mounted
    /\ InFlight = {}
    /\ Len(attempts) = 2
    /\ ~attempts[1].isRefresh /\ attempts[2].isRefresh
    /\ attempts[1].key = attempts[2].key
    /\ attempts[1].path = "success" /\ attempts[2].path = "success"
    /\ attempts[1].result # attempts[2].result
    /\ lastDone = 1
    /\ data = attempts[1].result
    /\ data # attempts[2].result

\* C6: while data holds the result of the successful attempt that returned
\* last, an automatic load that returns through the cache leaves data as it
\* is: only a failed refresh puts cached data in the place of a fetched value.
C6_NoRollbackByAutomaticLoad ==
    [][\A i \in DOMAIN attempts :
         ( /\ mounted
           /\ lastDone # 0
           /\ Last.path = "success"
           /\ data = Last.result
           /\ ~attempts[i].isRefresh
           /\ Returns(i)
           /\ attempts'[i].path = "hit" )
         => data' = data]_vars

C8_FlagsClearedOnEveryExit ==
    [][\A i \in DOMAIN attempts :
         (mounted /\ Returns(i)) => (~loading' /\ ~refreshing')]_vars

\* A refresh whose read of the store rejected has returned while the
\* automatic load is still in flight: both flags are down.
C8_Witness ==
    /\ mounted
    /\ lastDone # 0
    /\ Last.isRefresh
    /\ Last.path = "threw"
    /\ InFlight # {}
    /\ ~loading /\ ~refreshing

\* C9: the promise of no loadData call rejects.
C9_NothingRethrown ==
    \A i \in DOMAIN attempts : attempts[i].promise # "rejected"

\* C10: an attempt whose producer rejected always goes on to read the store;
\* when that read resolves, its promise is fulfilled and isOffline is true.
\* Only an error of the store makes the promise of an attempt reject.
C10_ProducerRejectionAbsorbed ==
    /\ [](\A i \in DOMAIN attempts :
            /\ (attempts[i].producer = "rejected" /\ attempts[i].pc = "done")
                  => attempts[i].path \in {"hit", "miss", "threw"}
            /\ attempts[i].path \in {"hit", "miss"}
                  => attempts[i].promise = "fulfilled"
            /\ attempts[i].promise = "rejected" => attempts[i].path = "threw")
    /\ [][\A i \in DOMAIN attempts :
            ( /\ mounted
              /\ attempts[i].producer = "rejected"
              /\ Returns(i)
              /\ attempts'[i].path \in {"hit", "miss"} )
            => isOffline']_vars

\* A refresh whose producer rejected has returned normally and raised
\* isOffline, which the successful automatic load had left false.
C10_Witness ==
    /\ mounted
    /\ Len(attempts) = 2
    /\ attempts[1].path = "success"
    /\ attempts[2].isRefresh
    /\ attempts[2].producer = "rejected"
    /\ attempts[2].promise = "fulfilled"
    /\ lastDone = 2
    /\ isOffline

\* Attempt i is an automatic load made for a key other than the first
\* render's: the effect ran it because the key had changed.
AfterKeyChange(i) ==
    /\ ~attempts[i].isRefresh
    /\ \E j \in 1 .. (i - 1) :
          ~attempts[j].isRefresh /\ attempts[j].key # attempts[i].key

\* C11: the automatic load that a key change to K2 starts ends as a first
\* load on K2 would, whatever the instance held for the previous key: when
\* its producer rejected and K2 has no entry, data is empty.
C11_KeyChangeDiscardsState ==
    [][\A i \in DOMAIN attempts :
         ( /\ mounted
           /\ AfterKeyChange(i)
           /\ attempts[i].key = key
           /\ Returns(i)
           /\ attempts'[i].path = "miss"
           /\ InFlight' = {} )
         => data' = JsNull]_vars

\* C12: a render that passes a new producer function under the same key
\* starts nothing: no loadData call, no change of data or of a flag, no
\* access to the store, no effect scheduled.  Automatic loads come from the
\* mount and from key changes only: each one after the first is made for a
\* key other than that of the automatic load before it.
C12_NewProducerStartsNothing ==
    /\ [][(fetcher' # fetcher /\ key' = key)
            => UNCHANGED <<attempts, hookState, store, effectPending,
                           boundFetcher>>]_vars
    /\ [](\A i, j \in DOMAIN attempts :
            ( /\ i < j
              /\ ~attempts[i].isRefresh
              /\ ~attempts[j].isRefresh
              /\ \A m \in (i + 1) .. (j - 1) : attempts[m].isRefresh )
            => attempts[i].key # attempts[j].key)

\* The automatic load has returned, a later render has passed a new
\* producer function, and there is still one loadData call and no effect
\* to run.
C12_Witness ==
    /\ mounted
    /\ fetcher # boundFetcher
    /\ Len(attempts) = 1
    /\ attempts[1].pc = "done"
    /\ ~effectPending
    /\ ~loading

----------------------------------------------------------------------------
\* Refreshes made one after the other.

\* What the first automatic load leaves when it has returned: it succeeded
\* with some value, or served the entry of a previous run, or found no entry.
SettledState ==
    /\ key = FirstKey
    /\ ~loading /\ ~refreshing
    /\ \/ data \in ProducerResults /\ ~isOffline
                                   /\ store[key] = JSONStringify(data)
       \/ store[key] \in PriorTexts /\ data = JSONParse(store[key])
                                    /\ isOffline
       \/ store[key] = NoEntry /\ data = JsNull /\ isOffline

\* The instance once its first automatic load has returned and nothing is
\* in flight.  The calls counted from here on are the refreshes.
InitSettled ==
    /\ LessonsAtRest /\ RoutingAtRest /\ DetailAtRest
    /\ mounted = TRUE
    /\ effectPending = FALSE
    /\ loading \in BOOLEAN
    /\ refreshing \in BOOLEAN
    /\ key \in Keys
    /\ data \in Values
    /\ isOffline \in BOOLEAN
    /\ store \in [Keys -> StoredTexts \cup {NoEntry}]
    /\ \A k \in Keys \ {FirstKey} : store[k] \in PriorTexts \cup {NoEntry}
    /\ SettledState
    /\ attempts = <<>>
    /\ lastDone = 0
    /\ storeFaults = 0
    /\ fetcher = 0
    /\ boundFetcher = 0

\* await refresh(): the caller makes its next call when this one returned.
RefreshAwaited ==
    /\ InFlight = {}
    /\ Refresh

NextSeq ==
    \/ RefreshAwaited
    \/ \E i \in 1 .. MaxAttempts, v \in ProducerResults : ProducerResolve(i, v)
    \/ \E i \in 1 .. MaxAttempts : ProducerReject(i)
    \/ \E i \in 1 .. MaxAttempts : WriteComplete(i)
    \/ \E i \in 1 .. MaxAttempts : ReadComplete(i)

\* Awaited refreshes on one key, after the first load, with a reliable store.
SpecSeq == InitSettled /\ [][NextSeq]_vars

\* C13: after two refreshes made in sequence, each awaited, that both
\* succeeded, data is the second result, loading, refreshing and isOffline
\* are false, and the key's entry is the JSON text of the second result.
C13_SequentialRefreshes ==
    \A b \in DOMAIN attempts :
        ( /\ b > 1
          /\ attempts[b - 1].isRefresh /\ attempts[b].isRefresh
          /\ attempts[b - 1].path = "success"
          /\ attempts[b].path = "success"
          /\ lastDone = b
          /\ InFlight = {} )
        => /\ data = attempts[b].result
           /\ ~loading /\ ~refreshing /\ ~isOffline
           /\ store[attempts[b].key] = JSONStringify(attempts[b].result)
           /\ attempts[b].key = attempts[b - 1].key

\* Two awaited refreshes fetched different values; the second one is shown
\* and stored.
C13_Witness ==
    /\ Len(attempts) = 2
    /\ attempts[1].isRefresh /\ attempts[2].isRefresh
    /\ attempts[1].path = "success" /\ attempts[2].path = "success"
    /\ attempts[1].result = JsString("Tip")
    /\ attempts[2].result = JsObject(1)
    /\ lastDone = 2
    /\ data = JsObject(1)
    /\ store[key] = JSONStringify(JsObject(1))
    /\ ~refreshing

----------------------------------------------------------------------------
\* This step is a call of refresh().
CallsRefresh ==
    /\ Len(attempts') = Len(attempts) + 1
    /\ attempts'[Len(attempts')].isRefresh

\* C14: a call of refresh() sets refreshing, and leaves loading, data and
\* isOffline as they are; until its producer settles, and in the step that
\* settles it, the refresh changes neither data nor isOffline: these change
\* only in a step in which some attempt returns.
C14_RefreshKeepsDisplay ==
    /\ [][CallsRefresh => /\ refreshing'
                          /\ loading' = loading
                          /\ data' = data
                          /\ isOffline' = isOffline]_vars
    /\ [][(data' # data \/ isOffline' # isOffline)
            => \E i \in DOMAIN attempts : Returns(i)]_vars

\* A refresh is waiting for its producer while the value fetched by the
\* automatic load is on display, with loading false.
C14_Witness ==
    /\ mounted
    /\ Len(attempts) = 2
    /\ attempts[1].path = "success"
    /\ attempts[2].isRefresh
    /\ attempts[2].pc = "fetching"
    /\ refreshing
    /\ ~loading
    /\ ~isOffline
    /\ data = attempts[1].result
    /\ data # JsNull

----------------------------------------------------------------------------
----------------------------------------------------------------------------
\* C16: an attempt that ends on the success path has issued one setItem and
\* no getItem; an attempt whose producer rejected issues one getItem and no
\* setItem; the store changes only in the step in which an attempt returns
\* on the success path, and an entry that is present is never removed.
C16_WriteOnSuccessReadOnFailure ==
    /\ [](\A i \in DOMAIN attempts :
            /\ (attempts[i].pc = "done" /\ attempts[i].path = "success")
                  => (attempts[i].writes = 1 /\ attempts[i].reads = 0)
            /\ (attempts[i].pc = "done" /\ attempts[i].producer = "rejected")
                  => (attempts[i].reads = 1 /\ attempts[i].writes = 0)
            /\ attempts[i].pc = "fetching"
                  => (attempts[i].reads = 0 /\ attempts[i].writes = 0))
    /\ [][store' # store
            => \E i \in DOMAIN attempts :
                  Returns(i) /\ attempts'[i].path = "success"]_vars
    /\ [][\A k \in Keys : store[k] # NoEntry => store'[k] # NoEntry]_vars

\* One attempt failed and served the entry of the previous run with a
\* single read, then another succeeded and overwrote that entry with a
\* single write.
C16_Witness ==
    /\ Len(attempts) = 2
    /\ InFlight = {}
    /\ attempts[1].key = attempts[2].key
    /\ attempts[1].producer = "rejected"
    /\ attempts[1].path = "hit"
    /\ attempts[1].reads = 1 /\ attempts[1].writes = 0
    /\ attempts[2].path = "success"
    /\ attempts[2].writes = 1 /\ attempts[2].reads = 0
    /\ lastDone = 2
    /\ store[attempts[2].key] = JSONStringify(attempts[2].result)
    /\ store[attempts[2].key] \notin PriorTexts

----------------------------------------------------------------------------
----------------------------------------------------------------------------
\* Progress.

\* The steps the runtime takes by itself: React runs a scheduled effect, a
\* pending promise of the producer or of the store settles.  Key changes,
\* refreshes and the unmount are the user's and may never come.
MechanismStep ==
    \/ RunEffect
    \/ \E i \in 1 .. MaxAttempts, v \in ProducerResults : ProducerResolve(i, v)
    \/ \E i \in 1 .. MaxAttempts : ProducerReject(i)
    \/ \E i \in 1 .. MaxAttempts : WriteComplete(i)
    \/ \E i \in 1 .. MaxAttempts : ReadComplete(i)

\* The screen stays open and the user does not touch it: no refresh() and no
\* key change; the parent may render again and the screen may be closed.
NextIdle ==
    \/ MechanismStep
    \/ Rerender
    \/ Unmount

\* The store is reliable, the user is idle, and the runtime keeps going
\* while it has work.
SpecIdle == Init /\ [][NextIdle]_vars /\ WF_vars(MechanismStep)

\* C18: an instance whose automatic load failed and that serves its cached
\* entry with isOffline true eventually shows isOffline false (or is
\* unmounted), without a key change or a refresh() being needed.
C18_SyncWhenBackOnline ==
    ( /\ mounted
      /\ isOffline
      /\ Len(attempts) = 1
      /\ ~attempts[1].isRefresh
      /\ attempts[1].path = "hit" )
        ~> (~mounted \/ ~isOffline)

----------------------------------------------------------------------------
\* The in-flight flag of attempt i: refreshing for a refresh, loading for an
\* automatic load.
FlagOf(i) == IF attempts[i].isRefresh THEN refreshing ELSE loading

\* C19 as stated: while the producer call of an attempt has not settled, the
\* flag of that attempt is true.
C19_HungCallKeepsFlag ==
    \A i \in DOMAIN attempts :
        (mounted /\ attempts[i].pc = "fetching") => FlagOf(i)

\* C19 amended: an attempt leaves the fetching state only when its producer
\* settles (there is no timeout); while it is fetching its flag is true as
\* long as no other attempt of the instance returns, and the flag goes down
\* only in a step in which another attempt returns.
C19_HungCallKeepsFlagUntilOtherReturns ==
    /\ [][\A i \in DOMAIN attempts :
            (attempts[i].pc = "fetching" /\ attempts'[i].pc # "fetching")
            => attempts'[i].producer \in {"resolved", "rejected"}]_vars
    /\ [](\A i \in DOMAIN attempts :
            (mounted /\ attempts[i].pc = "fetching" /\ lastDone = 0)
            => FlagOf(i))
    /\ [][\A i \in DOMAIN attempts :
            ( /\ mounted
              /\ attempts[i].pc = "fetching"
              /\ attempts'[i].pc = "fetching"
              /\ FlagOf(i)
              /\ ~(IF attempts[i].isRefresh THEN refreshing' ELSE loading') )
            => \E j \in DOMAIN attempts : j # i /\ Returns(j)]_vars

\* The automatic load started by a key change is still waiting for its
\* producer, and loading is already false: the load of the previous key has
\* returned meanwhile.  No refresh was made.
C19_Witness ==
    /\ mounted
    /\ Len(attempts) = 2
    /\ ~attempts[1].isRefresh /\ ~attempts[2].isRefresh
    /\ attempts[1].key # attempts[2].key
    /\ attempts[1].pc = "done"
    /\ attempts[2].pc = "fetching"
    /\ attempts[2].producer = "pending"
    /\ lastDone = 1
    /\ ~loading /\ ~refreshing

----------------------------------------------------------------------------
\* C20: a key change leaves the attempts in flight as they are; once the
\* automatic load of the old key and that of the new key have both returned
\* and nothing is in flight, the flags are false and data and isOffline are
\* what the one that returned last left: its result after a success, the
\* entry of its own key after a cache hit, whichever key is the present one.
C20_SupersededFetchCompletes ==
    /\ [][key' # key => attempts' = attempts]_vars
    /\ [](\A a, b \in DOMAIN attempts :
            ( /\ mounted
              /\ InFlight = {}
              /\ a < b
              /\ ~attempts[a].isRefresh /\ ~attempts[b].isRefresh
              /\ attempts[a].key # attempts[b].key
              /\ lastDone \in {a, b} )
            => /\ ~loading /\ ~refreshing
               /\ Last.path = "success"
                     => (data = Last.result /\ ~isOffline)
               /\ Last.path = "hit"
                     => (data = JSONParse(store[Last.key]) /\ isOffline)
               /\ Last.path = "miss" => isOffline)

\* The load of the old key returned after the load of the new key, both
\* with a value: the instance shows the old key's value under the new key.
C20_Witness ==
    /\ mounted
    /\ InFlight = {}
    /\ Len(attempts) = 2
    /\ ~attempts[1].isRefresh /\ ~attempts[2].isRefresh
    /\ attempts[1].key # key
    /\ attempts[2].key = key
    /\ attempts[1].path = "success" /\ attempts[2].path = "success"
    /\ attempts[1].result # attempts[2].result
    /\ lastDone = 1
    /\ data = attempts[1].result
    /\ store[key] = JSONStringify(attempts[2].result)

----------------------------------------------------------------------------
\* C21: when an attempt whose producer resolved returns, data is the
\* producer's result and isOffline is false, also when the write of the
\* result to the store failed.
C21_WriteFailureInconsequential ==
    [][\A i \in DOMAIN attempts :
         ( /\ mounted
           /\ attempts[i].producer = "resolved"
           /\ Returns(i)
           /\ attempts'[i].promise = "fulfilled" )
         => /\ data' = attempts[i].result
            /\ ~isOffline']_vars

----------------------------------------------------------------------------
\* C22: when the attempt that returned last succeeded with v, and an attempt
\* on the same key whose producer rejected returns next after reading the
\* store, data is still v, read back from the entry written for v, the
\* store is unchanged, and isOffline goes from false to true.
C22_CacheRoundTrip ==
    [][\A i \in DOMAIN attempts :
         ( /\ mounted
           /\ lastDone # 0
           /\ Last.path = "success"
           /\ Last.key = attempts[i].key
           /\ attempts[i].producer = "rejected"
           /\ Returns(i)
           /\ attempts'[i].promise = "fulfilled" )
         => /\ attempts'[i].path = "hit"
            /\ data' = Last.result
            /\ data' = JSONParse(JSONStringify(Last.result))
            /\ ~isOffline /\ isOffline'
            /\ store' = store]_vars

\* The automatic load fetched the object and a refresh then failed: data is
\* the object, parsed from the text the load had stored, and isOffline is up.
C22_Witness ==
    /\ mounted
    /\ Len(attempts) = 2
    /\ InFlight = {}
    /\ attempts[1].path = "success"
    /\ attempts[1].result = JsObject(1)
    /\ attempts[2].producer = "rejected"
    /\ attempts[2].path = "hit"
    /\ attempts[1].key = attempts[2].key
    /\ lastDone = 2
    /\ data = JsObject(1)
    /\ isOffline
    /\ store[key] = JSONStringify(JsObject(1))

----------------------------------------------------------------------------
----------------------------------------------------------------------------
\* C24 as stated: loading is true whenever an automatic load has started
\* and not returned, and refreshing is true whenever a refresh has started
\* and not returned.
C24_FlagsReflectInFlight ==
    mounted => \A i \in DOMAIN attempts : attempts[i].pc # "done" => FlagOf(i)

\* C24 amended: the start of an attempt raises the flag of its kind and
\* leaves the other; the return of any attempt clears both; no other step
\* changes a flag.  So a flag is true while an attempt of its kind is in
\* flight and no attempt has returned since that attempt started.
C24_FlagsFollowStartsAndReturns ==
    /\ [][Len(attempts') = Len(attempts) + 1
            => IF attempts'[Len(attempts')].isRefresh
               THEN refreshing' /\ loading' = loading
               ELSE loading' /\ refreshing' = refreshing]_vars
    /\ [][(mounted /\ \E i \in DOMAIN attempts : Returns(i))
            => (~loading' /\ ~refreshing')]_vars
    /\ [][(loading' # loading \/ refreshing' # refreshing)
            => \/ Len(attempts') = Len(attempts) + 1
               \/ \E i \in DOMAIN attempts : Returns(i)]_vars
    /\ []((mounted /\ lastDone = 0)
            => /\ loading
               /\ refreshing <=> \E i \in DOMAIN attempts :
                                     attempts[i].isRefresh)

\* The automatic load has returned while a refresh on the same key is
\* still in flight: refreshing is already false.
C24_Witness ==
    /\ mounted
    /\ Len(attempts) = 2
    /\ ~attempts[1].isRefresh /\ attempts[2].isRefresh
    /\ attempts[1].key = attempts[2].key
    /\ attempts[1].pc = "done"
    /\ attempts[2].pc # "done"
    /\ lastDone = 1
    /\ ~refreshing /\ ~loading

----------------------------------------------------------------------------
\* The store is reliable and the runtime keeps going while it has work:
\* every pending promise of a producer or of the store settles, and a
\* scheduled effect runs.  The user acts when they like.
SpecLive == Init /\ [][Next]_vars /\ WF_vars(MechanismStep)

\* C25: every attempt that has started eventually returns, and a mounted
\* instance eventually has loading and refreshing both false.
C25_AttemptsTerminate ==
    /\ \A i \in 1 .. MaxAttempts :
          (i \in DOMAIN attempts)
             ~> (i \in DOMAIN attempts /\ attempts[i].pc = "done")
    /\ mounted ~> (~mounted \/ (~loading /\ ~refreshing))

\* The automatic load found nothing to show, the refresh made next
\* fetched a value, both have returned and the flags are down.
C25_Witness ==
    /\ mounted
    /\ Len(attempts) = 2
    /\ InFlight = {}
    /\ ~attempts[1].isRefresh /\ attempts[2].isRefresh
    /\ attempts[1].path = "miss"
    /\ attempts[2].path = "success"
    /\ lastDone = 2
    /\ ~loading /\ ~refreshing

----------------------------------------------------------------------------
\* The lesson tables and the two functions that read them.

\* The lesson ids and the sequence numbers the tables are drawn from.
MaxLessons == 3

MaxSequence == 3

LessonIds == 1 .. MaxLessons

Sequences == 0 .. MaxSequence

\* The hook at its first render with an empty store; the specifications of
\* the rest of the app leave it there.
HookAtRest ==
    /\ key = FirstKey
    /\ mounted = TRUE
    /\ effectPending = TRUE
    /\ data = JsNull
    /\ loading = TRUE
    /\ isOffline = FALSE
    /\ refreshing = FALSE
    /\ store = [k \in Keys |-> NoEntry]
    /\ attempts = <<>>
    /\ lastDone = 0
    /\ storeFaults = 0
    /\ fetcher = 0
    /\ boundFetcher = 0

\* Math.max(...S) of a non-empty set of numbers.
RECURSIVE MathMax(_)
MathMax(S) ==
    LET x == CHOOSE y \in S : TRUE IN
      IF S = {x} THEN x
      ELSE LET m == MathMax(S \ {x}) IN IF x > m THEN x ELSE m

\* A status computed from the lesson's id where the code uses its sequence.
StatusOfById(l, completedIds, lastCompletedId) ==
    IF l \in completedIds THEN "completed"
    ELSE IF l = lastCompletedId + 1 THEN "current"
    ELSE IF lastCompletedId = 0 /\ l = 1 THEN "current"
    ELSE "locked"

\* The status fetchLessonsAndProgress gives lesson l.
StatusOf(l, completedIds, lastCompletedId) ==
    IF l \in completedIds THEN "completed"
    ELSE IF lessonsTable[l] = lastCompletedId + 1 THEN "current"
    ELSE IF lastCompletedId = 0 /\ lessonsTable[l] = 1 THEN "current"
    ELSE "locked"

\* fetchLessonsAndProgress.  Without a session: the first lesson is current
\* and the others are locked.  lessonsError: no lessons.  progressError:
\* the completed rows are null and count as none.
FetchLessonsAndProgress(lessonsError, progressError) ==
    /\ lessonsResult' =
         IF ~auth
         THEN [lessons |-> [l \in DOMAIN lessonsTable |->
                              IF lessonsTable[l] = 1 THEN "current"
                                                     ELSE "locked"],
               lastCompletedId |-> 0, guest |-> TRUE, failed |-> FALSE]
         ELSE IF lessonsError
         THEN [lessons |-> <<>>, lastCompletedId |-> 0, guest |-> FALSE,
               failed |-> TRUE]
         ELSE LET completedIds == IF progressError THEN {} ELSE userLessons
                  completedSequences ==
                      {lessonsTable[l] :
                          l \in DOMAIN lessonsTable \cap completedIds}
                  lastCompletedId ==
                      IF completedSequences # {}
                      THEN MathMax(completedSequences) ELSE 0
              IN [lessons |-> [l \in DOMAIN lessonsTable |->
                                 StatusOf(l, completedIds, lastCompletedId)],
                  lastCompletedId |-> lastCompletedId,
                  guest |-> FALSE, failed |-> progressError]
    /\ UNCHANGED <<lessonsTable, userLessons, nextLesson, routingVars, detail>>
    /\ UNCHANGED vars


\* next_lesson is null: no lesson row was found.
NoLesson == 0

\* .order('sequence', { ascending: true }).limit(1).maybeSingle() over the
\* lessons whose sequence is greater than minSeq: a row of the lowest
\* sequence (any of them when several share it), or null when there is none.
FirstBySequence(candidates) ==
    IF candidates = {} THEN {NoLesson}
    ELSE {l \in candidates :
            \A m \in candidates : lessonsTable[l] <= lessonsTable[m]}

\* fetchUserProgress, the part that selects next_lesson.
FetchUserProgress(n) ==
    /\ IF ~auth
       THEN n = NoLesson
       ELSE LET completedIds == userLessons
                completedSeqs ==
                    {lessonsTable[l] :
                        l \in DOMAIN lessonsTable \cap completedIds}
                maxSeq == MathMax(completedSeqs \cup {0})
            IN IF completedIds # {}
               THEN n \in FirstBySequence(
                            {l \in DOMAIN lessonsTable :
                                lessonsTable[l] > maxSeq})
               ELSE n \in FirstBySequence(DOMAIN lessonsTable)
    /\ nextLesson' = [next_lesson |-> n]
    /\ UNCHANGED <<lessonsTable, userLessons, lessonsResult, routingVars,
                   detail>>
    /\ UNCHANGED vars

\* The tables as the two screens find them: any lessons, any completion
\* rows (a row may name a lesson that is no longer in the table).
InitLessons ==
    /\ HookAtRest
    /\ LayoutAtRest
    /\ DetailAtRest
    /\ onboarding = [user_language |-> TRUE, user_crop |-> TRUE]
    /\ auth \in BOOLEAN
    /\ lessonsTable \in UNION {[D -> Sequences] : D \in SUBSET LessonIds}
    /\ userLessons \in SUBSET LessonIds
    /\ lessonsResult = NotFetched
    /\ nextLesson = NotFetched

NextLessons ==
    \/ \E lessonsError, progressError \in BOOLEAN :
          FetchLessonsAndProgress(lessonsError, progressError)
    \/ \E n \in LessonIds \cup {NoLesson} : FetchUserProgress(n)

\* The lessons screen and the dashboard read the same tables.
SpecLessons == InitLessons /\ [][NextLessons]_appVars

\* C26: for a logged-in user whose reads succeeded, a lesson is 'completed'
\* if and only if its id is among the user's completed ids; a lesson that
\* is not is 'current' if and only if its sequence is L + 1, L being the
\* largest sequence of the completed lessons of the table (0 when there is
\* none), and 'locked' otherwise; with distinct sequences at most one
\* lesson is 'current'.
C26_LessonStatus ==
    ( /\ lessonsResult # NotFetched
      /\ ~lessonsResult.guest
      /\ ~lessonsResult.failed )
    => LET status == lessonsResult.lessons
           done == DOMAIN lessonsTable \cap userLessons
           IsL(n) == IF done = {} THEN n = 0
                     ELSE /\ \E l \in done : lessonsTable[l] = n
                          /\ \A l \in done : lessonsTable[l] <= n
       IN /\ DOMAIN status = DOMAIN lessonsTable
          /\ \A l \in DOMAIN lessonsTable :
                /\ status[l] \in {"completed", "current", "locked"}
                /\ status[l] = "completed" <=> l \in userLessons
                /\ l \notin userLessons
                     => (status[l] = "current"
                           <=> \E n \in Sequences :
                                  IsL(n) /\ lessonsTable[l] = n + 1)
          /\ (\A l, m \in DOMAIN lessonsTable :
                 lessonsTable[l] = lessonsTable[m] => l = m)
             => \A l, m \in DOMAIN lessonsTable :
                   (status[l] = "current" /\ status[m] = "current") => l = m

\* Lessons 1 and 2 are completed, lesson 3 has sequence 3 and is current.
C26_Witness ==
    /\ lessonsResult # NotFetched
    /\ ~lessonsResult.guest /\ ~lessonsResult.failed
    /\ lessonsTable = <<1, 2, 3>>
    /\ userLessons = {1, 2}
    /\ lessonsResult.lastCompletedId = 2
    /\ lessonsResult.lessons = <<"completed", "completed", "current">>


\* C27: for a logged-in user, when both functions have read the same
\* tables, the dashboard's next_lesson is a lesson the lessons screen marks
\* 'current', and the dashboard has no next lesson exactly when the lessons
\* screen has no 'current' lesson.
C27_DashboardAgreesWithLessons ==
    ( /\ auth
      /\ lessonsResult # NotFetched
      /\ ~lessonsResult.failed
      /\ nextLesson # NotFetched )
    => LET status == lessonsResult.lessons
           n == nextLesson.next_lesson
       IN /\ n # NoLesson => status[n] = "current"
          /\ n = NoLesson <=> \A l \in DOMAIN status : status[l] # "current"

----------------------------------------------------------------------------
\* Start-up: AppLayout with its auth guard, and the Index screen under it.
\* React runs the effects of a render before it handles the next event, so
\* every step but the guard's waits while the guard has to run.

Routes == {"index", "language", "login", "dashboard", "lessons"}

\* Index is unmounted when the screen shown is no longer the index route.
LeaveIndex(r) ==
    IF route = "index" /\ r # "index"
    THEN [index EXCEPT !.pc = "gone"]
    ELSE index

\* supabase.auth.getSession().then(...) of AppLayout: setSession,
\* setIsLoading(false).  The layout now renders the Stack, which mounts the
\* screen of the route; Index starts checkFlow in its effect.
LayoutSessionChecked ==
    /\ layout.isLoading
    /\ ~guardPending
    /\ layout' = [session |-> auth, isLoading |-> FALSE]
    /\ guardPending' = TRUE
    /\ index' = IF route = "index" THEN [index EXCEPT !.pc = "getSession"]
                                   ELSE index
    /\ UNCHANGED <<auth, onboarding, route, lessonVars, detail>>
    /\ UNCHANGED vars

\* A guard that never sends a logged-in user away from the login screen.
GuardTargetKeepsLogin ==
    IF layout.isLoading THEN route
    ELSE IF layout.session THEN route
    ELSE IF route # "login" THEN "login" ELSE route

\* Where the routing effect leaves the app.
GuardTarget ==
    IF layout.isLoading THEN route
    ELSE IF layout.session
         THEN IF route = "login" THEN "lessons" ELSE route
         ELSE IF route # "login" THEN "login" ELSE route

\* The routing effect of AppLayout (dependencies: session, isLoading,
\* segments).  router.replace changes the segments, so the effect has to
\* run once more.
GuardRun ==
    /\ guardPending
    /\ route' = GuardTarget
    /\ guardPending' = (route' # route)
    /\ index' = LeaveIndex(route')
    /\ UNCHANGED <<auth, onboarding, layout, lessonVars, detail>>
    /\ UNCHANGED vars

\* checkFlow: `await supabase.auth.getSession()` resolves; setSession.
IndexSessionRead ==
    /\ ~guardPending
    /\ index.pc = "getSession"
    /\ index' = [index EXCEPT !.pc = "getItem", !.session = auth]
    /\ UNCHANGED <<auth, onboarding, layout, guardPending, route, lessonVars,
                   detail>>
    /\ UNCHANGED vars

\* checkFlow: the two getItem calls resolve; setIsFirstLaunch, and
\* setLoading(false) in the finally block.
IndexFlagsRead ==
    /\ ~guardPending
    /\ index.pc = "getItem"
    /\ index' = [index EXCEPT
                   !.pc = "ready",
                   !.isFirstLaunch =
                       IF ~onboarding.user_language THEN "true"
                       ELSE IF ~onboarding.user_crop THEN "true"
                       ELSE "false",
                   !.loading = FALSE]
    /\ UNCHANGED <<auth, onboarding, layout, guardPending, route, lessonVars,
                   detail>>
    /\ UNCHANGED vars

\* checkFlow: getSession or getItem rejects; the catch block logs, the
\* finally block runs setLoading(false); isFirstLaunch stays null.
IndexCheckFails ==
    /\ ~guardPending
    /\ index.pc \in {"getSession", "getItem"}
    /\ index' = [index EXCEPT !.pc = "ready", !.loading = FALSE,
                              !.failed = TRUE]
    /\ UNCHANGED <<auth, onboarding, layout, guardPending, route, lessonVars,
                   detail>>
    /\ UNCHANGED vars

\* Index renders a Redirect once loading is false.
IndexRedirect ==
    /\ ~guardPending
    /\ index.pc = "ready"
    /\ route' = IF index.isFirstLaunch = "true" THEN "language"
                ELSE IF index.session THEN "dashboard"
                ELSE "login"
    /\ index' = [index EXCEPT !.pc = "gone"]
    /\ guardPending' = TRUE
    /\ UNCHANGED <<auth, onboarding, layout, lessonVars, detail>>
    /\ UNCHANGED vars

\* The session is created (login) or ends (logout, expiry); the listener
\* of onAuthStateChange runs setSession.
AuthEvent(s) ==
    /\ ~guardPending
    /\ s # auth
    /\ auth' = s
    /\ layout' = [layout EXCEPT !.session = s]
    /\ guardPending' = TRUE
    /\ UNCHANGED <<onboarding, index, route, lessonVars, detail>>
    /\ UNCHANGED vars

\* The user, or a screen, navigates to route r.
Navigate(r) ==
    /\ ~guardPending
    /\ ~layout.isLoading
    /\ index.pc = "gone"
    /\ r # route
    /\ route' = r
    /\ guardPending' = TRUE
    /\ UNCHANGED <<auth, onboarding, layout, index, lessonVars, detail>>
    /\ UNCHANGED vars

\* The app is launched on the index route, with or without a session and
\* with or without the onboarding entries.
InitRouting ==
    /\ HookAtRest
    /\ LessonsAtRest
    /\ DetailAtRest
    /\ LayoutAtRest
    /\ auth \in BOOLEAN
    /\ onboarding \in [user_language : BOOLEAN, user_crop : BOOLEAN]

NextStartup ==
    \/ LayoutSessionChecked
    \/ GuardRun
    \/ IndexSessionRead
    \/ IndexFlagsRead
    \/ IndexCheckFails
    \/ IndexRedirect
    \/ AuthEvent(FALSE)

\* The launch, up to the first screen; the session may end meanwhile.
SpecStartup == InitRouting /\ [][NextStartup]_appVars

NextRouting ==
    \/ NextStartup
    \/ AuthEvent(TRUE)
    \/ \E r \in Routes \ {"index"} : Navigate(r)

\* The app in use: logins, logouts and navigation.
SpecRouting == InitRouting /\ [][NextRouting]_appVars


\* The launch is over: the layout has its session, Index has been left, and
\* the guard has nothing to run.
StartupSettled ==
    /\ ~layout.isLoading
    /\ ~guardPending
    /\ index.pc = "gone"

\* C28: when the launch is over and no start-up read has failed, the
\* screen shown is the language screen if user_language or user_crop is
\* not stored; otherwise the dashboard if a session exists; otherwise the
\* login screen.
C28_StartupFlow ==
    (StartupSettled /\ ~index.failed)
    => route = IF ~onboarding.user_language \/ ~onboarding.user_crop
               THEN "language"
               ELSE IF auth THEN "dashboard"
               ELSE "login"


----------------------------------------------------------------------------
\* LessonDetailScreen: marking the lesson complete.

\* The presses of the button that are followed.
MaxPresses == 2

\* A markLessonComplete that takes every insert error for a failure.
SuccessOfStrict(outcome) == outcome = "inserted"

\* What markLessonComplete reports: success after the insert, and after the
\* insert failed with code 23505.
SuccessOf(outcome) == outcome \in {"inserted", "23505"}

\* The effect of the screen has read user_lessons: `if (data)
\* setIsCompleted(true)`.
DetailLoaded ==
    /\ auth
    /\ detail.lesson \in userLessons
    /\ ~detail.isCompleted
    /\ detail' = [detail EXCEPT !.isCompleted = TRUE]
    /\ UNCHANGED <<lessonVars, routingVars>>
    /\ UNCHANGED vars

\* handleMarkComplete up to `await markLessonComplete(lesson)`:
\* `if (!lesson || isCompleting) return;  setIsCompleting(true);`
HandleMarkComplete ==
    /\ detail.pc = "idle"
    /\ ~detail.isCompleting
    /\ detail.presses < MaxPresses
    /\ detail' = [detail EXCEPT !.pc = "getSession", !.isCompleting = TRUE,
                                !.outcome = "none", !.success = FALSE,
                                !.inserts = 0, !.presses = @ + 1]
    /\ UNCHANGED <<lessonVars, routingVars>>
    /\ UNCHANGED vars

\* handleMarkComplete after the await: setIsCompleting(false); if
\* (success) setIsCompleted(true).
DetailReturn(outcome) ==
    [detail EXCEPT !.pc = "idle",
                   !.outcome = outcome,
                   !.success = SuccessOf(outcome),
                   !.isCompleting = FALSE,
                   !.isCompleted = IF SuccessOf(outcome) THEN TRUE ELSE @]

\* markLessonComplete: getSession resolves.  Without a user id it alerts
\* and returns { success: false }; with one it issues the insert.
MarkSessionRead ==
    /\ detail.pc = "getSession"
    /\ detail' = IF auth
                 THEN [detail EXCEPT !.pc = "insert", !.inserts = @ + 1]
                 ELSE DetailReturn("no session")
    /\ UNCHANGED <<lessonVars, routingVars>>
    /\ UNCHANGED vars

\* markLessonComplete: the insert into user_lessons settles.  A second row
\* for the same user and lesson is refused with code 23505; any insert may
\* fail for another reason.
MarkInsertDone(outcome) ==
    /\ detail.pc = "insert"
    /\ outcome \in (IF detail.lesson \in userLessons THEN {"23505"}
                                                      ELSE {"inserted"})
                   \cup {"error"}
    /\ userLessons' = IF outcome = "inserted"
                      THEN userLessons \cup {detail.lesson}
                      ELSE userLessons
    /\ detail' = DetailReturn(outcome)
    /\ UNCHANGED <<lessonsTable, lessonsResult, nextLesson, routingVars>>
    /\ UNCHANGED vars

\* The lesson screen is open on a lesson that the user has completed
\* already or not, with or without a session.
InitDetail ==
    /\ HookAtRest
    /\ LayoutAtRest
    /\ onboarding = [user_language |-> TRUE, user_crop |-> TRUE]
    /\ auth \in BOOLEAN
    /\ lessonsTable = <<>>
    /\ userLessons \in SUBSET LessonIds
    /\ lessonsResult = NotFetched
    /\ nextLesson = NotFetched
    /\ \E l \in LessonIds :
          detail = [lesson |-> l, pc |-> "idle", isCompleting |-> FALSE,
                    isCompleted |-> FALSE, outcome |-> "none",
                    success |-> FALSE, inserts |-> 0, presses |-> 0]

NextDetail ==
    \/ DetailLoaded
    \/ HandleMarkComplete
    \/ MarkSessionRead
    \/ \E outcome \in {"inserted", "23505", "error"} : MarkInsertDone(outcome)

SpecDetail == InitDetail /\ [][NextDetail]_appVars

\* handleMarkComplete returns in this step.
DetailReturns ==
    detail.pc # "idle" /\ detail'.pc = "idle"

\* C30: markLessonComplete reports success when the row was inserted and
\* when the insert was refused with code 23505, and the screen then has
\* isCompleted true and isCompleting false; the user has one row for the
\* lesson in both cases.  Without a session no insert is issued; then, and
\* after any other insert error, it reports failure, isCompleted is what it
\* was and isCompleting is false.
C30_CompletionIdempotent ==
    [][DetailReturns =>
         /\ ~detail'.isCompleting
         /\ detail'.outcome \in {"inserted", "23505"}
               => /\ detail'.success
                  /\ detail'.isCompleted
                  /\ detail.lesson \in userLessons'
                  /\ detail'.inserts = 1
         /\ detail'.outcome = "23505" => userLessons' = userLessons
         /\ detail'.outcome \in {"no session", "error"}
               => /\ ~detail'.success
                  /\ detail'.isCompleted = detail.isCompleted
                  /\ userLessons' = userLessons
         /\ detail'.outcome = "no session" <=> ~auth
         /\ detail'.outcome = "no session" => detail'.inserts = 0]_appVars

\* The button was pressed twice: the first press inserted the row, the
\* second was refused with 23505 and reported success again.
C30_Witness ==
    /\ detail.presses = 2
    /\ detail.pc = "idle"
    /\ detail.outcome = "23505"
    /\ detail.success
    /\ detail.isCompleted
    /\ ~detail.isCompleting
    /\ detail.lesson \in userLessons

----------------------------------------------------------------------------
TypeOK ==
    /\ key \in Keys
    /\ mounted \in BOOLEAN
    /\ effectPending \in BOOLEAN
    /\ data \in Values
    /\ loading \in BOOLEAN
    /\ isOffline \in BOOLEAN
    /\ refreshing \in BOOLEAN
    /\ store \in [Keys -> StoredTexts \cup {NoEntry}]
    /\ Len(attempts) <= MaxAttempts
    /\ lastDone \in 0 .. Len(attempts)
    /\ storeFaults \in 0 .. MaxStoreFaults
    /\ fetcher \in 0 .. MaxRenders
    /\ boundFetcher \in 0 .. fetcher
    /\ DOMAIN lessonsTable \subseteq LessonIds
    /\ \A l \in DOMAIN lessonsTable : lessonsTable[l] \in Sequences
    /\ userLessons \subseteq LessonIds
    /\ nextLesson # NotFetched
          => nextLesson.next_lesson \in DOMAIN lessonsTable \cup {NoLesson}
    /\ auth \in BOOLEAN
    /\ onboarding \in [user_language : BOOLEAN, user_crop : BOOLEAN]
    /\ layout \in [session : BOOLEAN, isLoading : BOOLEAN]
    /\ guardPending \in BOOLEAN
    /\ index.pc \in {"unmounted", "getSession", "getItem", "ready", "gone"}
    /\ index.isFirstLaunch \in {"null", "true", "false"}
    /\ route \in Routes
    /\ detail.pc \in {"idle", "getSession", "insert"}
    /\ detail.lesson \in LessonIds
    /\ detail.presses \in 0 .. MaxPresses

====
